---------------------------- MODULE Spec2Model ----------------------------
(***************************************************************************)
(* A model of du/torch_utils.py: the AverageMeter accumulator, the         *)
(* ConcatDataset / AugmentedDataset adapters, accuracy (top-k),            *)
(* label_smoothing, the cifar10_data / mnist_data transform pipelines and  *)
(* adjust_learning_rate.                                                   *)
(*                                                                         *)
(* Numbers: Python ints are unbounded integers.  A value produced by true  *)
(* division (Python's /) or by float tensor arithmetic is modelled as an   *)
(* exact rational <<numerator, denominator>> in lowest terms with a        *)
(* positive denominator; binary floating-point rounding is not modelled.   *)
(* An exception is modelled as the call's outcome ("raised"), together     *)
(* with whatever the call had already assigned before it raised.           *)
(***************************************************************************)
EXTENDS Integers, Sequences, FiniteSets, TLC

VARIABLES
    \* AverageMeter fields
    val, avg, sum, count,
    \* the last AverageMeter call: [op, val, n, raised]
    mcall,
    \* history: the <<val, n>> of every update since the last reset
    updates

mvars == <<val, avg, sum, count, mcall, updates>>

(***************************************************************************)
(* Rationals                                                               *)
(***************************************************************************)
Abs(x) == IF x < 0 THEN -x ELSE x

RECURSIVE Gcd(_, _)
Gcd(a, b) == IF b = 0 THEN a ELSE Gcd(b, a % b)

\* n/d for d # 0, in lowest terms, denominator positive
Norm(n, d) ==
    LET g == Gcd(Abs(n), Abs(d))
        s == IF d < 0 THEN -1 ELSE 1
    IN  <<(s * n) \div g, Abs(d) \div g>>

Rat(i) == <<i, 1>>
RAdd(p, q) == Norm(p[1] * q[2] + q[1] * p[2], p[2] * q[2])
RSub(p, q) == Norm(p[1] * q[2] - q[1] * p[2], p[2] * q[2])
RMul(p, q) == Norm(p[1] * q[1], p[2] * q[2])
RLeq(p, q) == p[1] * q[2] <= q[1] * p[2]

\* Python's a / b on numbers: ZeroDivisionError when b is zero
DivRaises(b) == b[1] = 0
TrueDiv(a, b) == Norm(a[1] * b[2], a[2] * b[1])

RECURSIVE RSum(_)
RSum(s) == IF s = <<>> THEN Rat(0) ELSE RAdd(s[1], RSum(Tail(s)))

(***************************************************************************)
(* AverageMeter                                                            *)
(***************************************************************************)
MaxUpdates == 3
MaxWeight == 2
Vals == {-1, 2, 4, 6}
Weights == -1 .. MaxWeight

\* __init__ is reset()
MeterInit ==
    /\ val = 0
    /\ avg = Rat(0)
    /\ sum = 0
    /\ count = 0
    /\ mcall = [op |-> "__init__", val |-> 0, n |-> 0, raised |-> "none"]
    /\ updates = <<>>

reset ==
    /\ val' = 0
    /\ avg' = Rat(0)
    /\ sum' = 0
    /\ count' = 0
    /\ mcall' = [op |-> "reset", val |-> 0, n |-> 0, raised |-> "none"]
    /\ updates' = <<>>

\* line 56: self.sum += val * n  (variant: the weight dropped)
UpdateSumUnweighted(s, v, n) == s + v
UpdateSum(s, v, n) == s + v * n

\* line 57: self.count += n
UpdateCount(c, n) == c + n

\* line 58: self.avg = self.sum / self.count, on the new sum s and count c,
\* with a the avg before the call: the avg afterwards and what was raised.
\* Python raises ZeroDivisionError before the assignment takes place.
\* (variant: a division that yields nan instead of raising)
NaN == <<0, 0>>
UpdateAvgNaN(s, c, a) ==
    IF DivRaises(Rat(c))
    THEN [avg |-> NaN, raised |-> "none"]
    ELSE [avg |-> TrueDiv(Rat(s), Rat(c)), raised |-> "none"]
UpdateAvg(s, c, a) ==
    IF DivRaises(Rat(c))
    THEN [avg |-> a, raised |-> "ZeroDivisionError"]
    ELSE [avg |-> TrueDiv(Rat(s), Rat(c)), raised |-> "none"]

update(v, n) ==
    /\ Len(updates) < MaxUpdates
    /\ val' = v
    /\ sum' = UpdateSum(sum, v, n)
    /\ count' = UpdateCount(count, n)
    /\ LET r == UpdateAvg(sum', count', avg)
       IN  /\ avg' = r.avg
           /\ mcall' = [op |-> "update", val |-> v, n |-> n, raised |-> r.raised]
    /\ updates' = Append(updates, <<v, n>>)

(***************************************************************************)
(* Python sequence subscript d[i], as the underlying datasets (lists,      *)
(* tuples, tensors, arrays) implement it: 0-based, a negative index counts *)
(* from the end, anything else raises IndexError.                          *)
(***************************************************************************)
NoItem == <<>>

PyIndex(d, i) ==
    IF -Len(d) <= i /\ i < Len(d)
    THEN [raised |-> "none", item |-> d[(IF i < 0 THEN i + Len(d) ELSE i) + 1]]
    ELSE [raised |-> "IndexError", item |-> NoItem]

(***************************************************************************)
(* ConcatDataset                                                           *)
(***************************************************************************)
VARIABLES
    \* ConcatDataset.datasets: a sequence of datasets, each a sequence of items
    datasets,
    \* the last ConcatDataset call: [op, idx, raised, len, item]
    ccall

cvars == <<datasets, ccall>>

MaxDatasets == 3
MaxLen == 2

\* the j-th item (0-based) of the i-th dataset (1-based): a tuple
Item(i, j) == <<"x", i, j>>

DatasetOfLen(i, n) == [j \in 1 .. n |-> Item(i, j - 1)]

DatasetLists ==
    UNION { { [i \in 1 .. m |-> DatasetOfLen(i, lens[i])] :
                lens \in [1 .. m -> 0 .. MaxLen] } : m \in 0 .. MaxDatasets }

ConcatIdle ==
    /\ datasets = <<>>
    /\ ccall = [op |-> "idle", idx |-> 0, raised |-> "none", len |-> 0,
                item |-> NoItem]

\* __init__(datasets)
ConcatInit ==
    /\ datasets \in DatasetLists
    /\ ccall = [op |-> "__init__", idx |-> 0, raised |-> "none", len |-> 0,
                item |-> NoItem]

\* __len__: sum(map(len, self.datasets))
RECURSIVE ConcatLen(_)
ConcatLen(ds) == IF ds = <<>> THEN 0 ELSE Len(ds[1]) + ConcatLen(Tail(ds))

\* line 110, the loop condition; dataset_idx is 0-based as in the source
\* (variant: > for >=)
WhileCondStrict(ds, idx, dataset_idx) ==
    idx > Len(ds[dataset_idx + 1]) /\ dataset_idx < Len(ds) - 1
WhileCond(ds, idx, dataset_idx) ==
    idx >= Len(ds[dataset_idx + 1]) /\ dataset_idx < Len(ds) - 1

\* lines 109-112: the loop, giving <<dataset_idx, idx>> at its exit
RECURSIVE Walk(_, _, _)
Walk(ds, idx, dataset_idx) ==
    IF WhileCond(ds, idx, dataset_idx)
    THEN Walk(ds, idx - Len(ds[dataset_idx + 1]), dataset_idx + 1)
    ELSE <<dataset_idx, idx>>

\* __getitem__ with a range check in front: not what the source does
ConcatGetItemChecked(ds, idx) ==
    IF ds = <<>> \/ idx < 0 \/ idx >= ConcatLen(ds)
    THEN [raised |-> "IndexError", item |-> NoItem]
    ELSE LET w == Walk(ds, idx, 0) IN PyIndex(ds[w[1] + 1], w[2])

\* __getitem__(idx): with no datasets, self.datasets[0] raises in line 110
ConcatGetItem(ds, idx) ==
    IF ds = <<>>
    THEN [raised |-> "IndexError", item |-> NoItem]
    ELSE LET w == Walk(ds, idx, 0) IN PyIndex(ds[w[1] + 1], w[2])

IdxRange == -(MaxLen + 1) .. (MaxDatasets * MaxLen + 1)

getitem(idx) ==
    /\ LET r == ConcatGetItem(datasets, idx)
       IN  ccall' = [op |-> "__getitem__", idx |-> idx, raised |-> r.raised,
                     len |-> 0, item |-> r.item]
    /\ UNCHANGED datasets

len ==
    /\ ccall' = [op |-> "__len__", idx |-> 0, raised |-> "none",
                 len |-> ConcatLen(datasets), item |-> NoItem]
    /\ UNCHANGED datasets

(***************************************************************************)
(* AugmentedDataset                                                        *)
(***************************************************************************)
VARIABLES
    \* the object __init__ was last run on: the attributes it has been given
    aself,
    \* the last AugmentedDataset call: [op, dataset, augmented_data, raised]
    acall

avars == <<aself, acall>>

AugMaxLen == 3
AugVals == {"a", "b", "c"}

AugDatasets == { DatasetOfLen(1, n) : n \in 0 .. AugMaxLen }
AugData == UNION { [1 .. n -> AugVals] : n \in 0 .. AugMaxLen }

\* a fresh object: no instance attribute is set
NewObject == [attrs |-> {}, dataset |-> <<>>, augmented_data |-> <<>>]

AugIdle ==
    /\ aself = NewObject
    /\ acall = [op |-> "idle", dataset |-> <<>>, augmented_data |-> <<>>,
                raised |-> "none"]

\* __init__(dataset, augmented_data), lines 117-120: the object it leaves
\* and what it raised.  Line 120 reads self.augmented_data, which nothing
\* has assigned, instead of assigning it.
AugInit(dataset, augmented_data) ==
    IF Len(dataset) # Len(augmented_data)
    THEN [self |-> NewObject, raised |-> "AssertionError"]
    ELSE LET s1 == [NewObject EXCEPT !.attrs = {"dataset"}, !.dataset = dataset]
         IN  IF "augmented_data" \in s1.attrs
             THEN [self |-> s1, raised |-> "none"]
             ELSE [self |-> s1, raised |-> "AttributeError"]

\* __len__
AugLen(self) ==
    IF "dataset" \in self.attrs
    THEN [raised |-> "none", len |-> Len(self.dataset)]
    ELSE [raised |-> "AttributeError", len |-> 0]

\* __getitem__(idx): self.dataset[idx] + (self.augmented_data[idx],)
AugGetItem(self, idx) ==
    IF "dataset" \notin self.attrs
    THEN [raised |-> "AttributeError", item |-> NoItem]
    ELSE LET d == PyIndex(self.dataset, idx)
         IN  IF d.raised # "none" THEN d
             ELSE IF "augmented_data" \notin self.attrs
             THEN [raised |-> "AttributeError", item |-> NoItem]
             ELSE LET a == PyIndex(self.augmented_data, idx)
                  IN  IF a.raised # "none" THEN a
                      ELSE [raised |-> "none", item |-> d.item \o <<a.item>>]

construct(dataset, augmented_data) ==
    LET r == AugInit(dataset, augmented_data)
    IN  /\ aself' = r.self
        /\ acall' = [op |-> "__init__", dataset |-> dataset,
                     augmented_data |-> augmented_data, raised |-> r.raised]

(***************************************************************************)
(* accuracy                                                                *)
(***************************************************************************)
VARIABLES
    \* the last accuracy call: [output, target, topk, classes, raised, res]
    xcall

xvars == <<xcall>>

\* topk has up to MaxTopk entries, each up to one more than the classes;
\* scores are drawn from three values, so rows with and without ties occur
MaxTopk == 2
ClassCounts == {1, 2, 3}
BatchSizes == {0, 1, 2}
Scores == {1, 2, 3}

\* output is N rows of C scores (class c, 0-based, is row[c + 1]); target is
\* N labels in [0, C); topk is a non-empty tuple of positive K
Rows(C) == [1 .. C -> Scores]
Outputs(C) == UNION { [1 .. n -> Rows(C)] : n \in BatchSizes }
Targets(C, n) == [1 .. n -> 0 .. C - 1]
Topks(C) == UNION { [1 .. n -> 1 .. C + 1] : n \in 1 .. MaxTopk }

AccIdle ==
    xcall = [output |-> <<>>, target |-> <<>>, topk |-> <<>>, classes |-> 0,
             raised |-> "idle", res |-> <<>>]

RECURSIVE SeqMax(_)
SeqMax(s) ==
    IF Len(s) = 1 THEN s[1]
    ELSE LET m == SeqMax(Tail(s)) IN IF s[1] > m THEN s[1] ELSE m

\* line 32: tensor.topk(k, dim=1) raises when k exceeds the number of classes
\* (variant: k silently cut down to the number of classes)
TopkRaisesNever(maxk, C) == FALSE
TopkRaises(maxk, C) == maxk > C

\* line 32: the index rows topk(k, largest, sorted) may return for one row:
\* k distinct classes, scores descending, none left out scoring higher; the
\* order among equal scores is the library's choice
RECURSIVE TopkRow(_, _, _)
TopkRow(row, k, chosen) ==
    LET rest == { c \in 0 .. Len(row) - 1 : c \notin chosen }
        best == { c \in rest : \A d \in rest : row[d + 1] <= row[c + 1] }
    IN  IF k = 0 \/ rest = {} THEN { <<>> }
        ELSE UNION { { <<c>> \o t : t \in TopkRow(row, k - 1, chosen \cup {c}) } :
                        c \in best }

\* lines 32-33: pred, one index row per example (pred.t() only transposes)
Preds(output, maxk) ==
    { p \in [1 .. Len(output) -> UNION { TopkRow(output[i], maxk, {}) :
                                            i \in 1 .. Len(output) }] :
        \A i \in 1 .. Len(output) : p[i] \in TopkRow(output[i], maxk, {}) }

\* lines 34, 38: correct[:k] summed: the (example, rank < k) pairs where the
\* predicted class is the target  (variant: correct[:1])
CorrectTop1(pred, target, k) ==
    Cardinality({ <<i, j>> \in (1 .. Len(pred)) \X (1 .. 1) :
                    j <= Len(pred[i]) /\ pred[i][j] = target[i] })
CorrectK(pred, target, k) ==
    Cardinality({ <<i, j>> \in (1 .. Len(pred)) \X (1 .. k) :
                    j <= Len(pred[i]) /\ pred[i][j] = target[i] })

\* lines 36-40: the loop over topk; 100.0 / batch_size raises for an empty batch
AccuracyRes(pred, target, topk) ==
    LET batch_size == Len(target)
    IN  IF DivRaises(Rat(batch_size))
        THEN [raised |-> "ZeroDivisionError", res |-> <<>>]
        ELSE [raised |-> "none",
              res |-> [t \in 1 .. Len(topk) |->
                          RMul(Rat(CorrectK(pred, target, topk[t])),
                               TrueDiv(Rat(100), Rat(batch_size)))]]

\* the arguments of a call about to be made
AccInit ==
    \E C \in ClassCounts :
        \E output \in Outputs(C), topk \in Topks(C) :
            \E target \in Targets(C, Len(output)) :
                xcall = [output |-> output, target |-> target, topk |-> topk,
                         classes |-> C, raised |-> "pending", res |-> <<>>]

accuracy ==
    /\ xcall.raised = "pending"
    /\ LET maxk == SeqMax(xcall.topk)
       IN  IF TopkRaises(maxk, xcall.classes)
           THEN xcall' = [xcall EXCEPT !.raised = "RuntimeError"]
           ELSE \E pred \in Preds(xcall.output, maxk) :
                   LET r == AccuracyRes(pred, xcall.target, xcall.topk)
                   IN  xcall' = [xcall EXCEPT !.raised = r.raised, !.res = r.res]

(***************************************************************************)
(* label_smoothing                                                         *)
(***************************************************************************)
VARIABLES
    \* the last label_smoothing call:
    \* [kind, target, epsilon, num_classes, raised, out]
    lcall

lvars == <<lcall>>

LsMaxClasses == 3
LsMaxBatch == 2
EpsDen == 4
SoftDen == 2

\* epsilon in [0, 1)
Epsilons == { Norm(k, EpsDen) : k \in 0 .. EpsDen - 1 }

\* a hard target: int64 labels, 1-D.  A soft target: rows of C probabilities
\* (multiples of 1/SoftDen) that sum to 1
HardTargets(C) == UNION { [1 .. n -> 0 .. C - 1] : n \in 1 .. LsMaxBatch }
SoftRows(C) ==
    { [c \in 1 .. C |-> Norm(k[c], SoftDen)] :
        k \in { f \in [1 .. C -> 0 .. SoftDen] :
                  RSum([c \in 1 .. C |-> Rat(f[c])]) = Rat(SoftDen) } }
SoftTargets(C) == UNION { [1 .. n -> SoftRows(C)] : n \in 1 .. LsMaxBatch }

LsIdle ==
    lcall = [kind |-> "idle", target |-> <<>>, epsilon |-> Rat(0),
             num_classes |-> -1, raised |-> "idle", out |-> <<>>]

\* the arguments of a call about to be made; num_classes is given, or left
\* at its default of -1
LsInit ==
    \E C \in 1 .. LsMaxClasses, eps \in Epsilons :
        \/ \E t \in HardTargets(C), nc \in {C, -1} :
              lcall = [kind |-> "hard", target |-> t, epsilon |-> eps,
                       num_classes |-> nc, raised |-> "pending", out |-> <<>>]
        \/ \E t \in SoftTargets(C) :
              lcall = [kind |-> "soft", target |-> t, epsilon |-> eps,
                       num_classes |-> -1, raised |-> "pending", out |-> <<>>]

\* line 91: F.one_hot(target, num_classes).float(); -1 infers max + 1 classes
OneHot(labels, num_classes) ==
    LET n == IF num_classes = -1 THEN SeqMax(labels) + 1 ELSE num_classes
    IN  [i \in 1 .. Len(labels) |->
            [c \in 1 .. n |-> IF c = labels[i] + 1 THEN Rat(1) ELSE Rat(0)]]

\* line 93: uniform_weight = epsilon / (num_classes - 1)
\* (variant: epsilon / num_classes)
UniformWeightOverClasses(epsilon, num_classes) == TrueDiv(epsilon, Rat(num_classes))
UniformWeight(epsilon, num_classes) == TrueDiv(epsilon, Rat(num_classes - 1))

\* line 94: target_scaling = 1. - epsilon - uniform_weight
TargetScaling(epsilon, uniform_weight) ==
    RSub(RSub(Rat(1), epsilon), uniform_weight)

\* lines 95-96: target * target_scaling + ones_like(target) * uniform_weight
Smooth(target, target_scaling, uniform_weight) ==
    [i \in 1 .. Len(target) |->
        [c \in 1 .. Len(target[i]) |->
            RAdd(RMul(target[i][c], target_scaling), RMul(Rat(1), uniform_weight))]]

\* lines 90-96: what the call raised and returned
LabelSmoothing(kind, target0, epsilon, num_classes0) ==
    LET target == IF kind = "hard" THEN OneHot(target0, num_classes0) ELSE target0
        num_classes == Len(target[1])
    IN  IF DivRaises(Rat(num_classes - 1))
        THEN [raised |-> "ZeroDivisionError", out |-> <<>>]
        ELSE LET uniform_weight == UniformWeight(epsilon, num_classes)
                 target_scaling == TargetScaling(epsilon, uniform_weight)
             IN  [raised |-> "none",
                  out |-> Smooth(target, target_scaling, uniform_weight)]

label_smoothing ==
    /\ lcall.raised = "pending"
    /\ LET r == LabelSmoothing(lcall.kind, lcall.target, lcall.epsilon,
                               lcall.num_classes)
       IN  lcall' = [lcall EXCEPT !.raised = r.raised, !.out = r.out]

(***************************************************************************)
(* cifar10_data, mnist_data: the transform pipeline handed to the dataset  *)
(***************************************************************************)
VARIABLES
    \* the last cifar10_data / mnist_data call:
    \* [fn, train, augmentation, raised, dataset, transform]
    tcall

tvars == <<tcall>>

MaxSteps == 2

\* transform steps, by their constructor calls
ToTensor == "ToTensor()"
NormalizeCifar ==
    "Normalize([0.4914, 0.4822, 0.4465], [0.2023, 0.1994, 0.2010])"
NormalizeMnist == "Normalize((0.1307,), (0.3081,))"
RandomCrop == "RandomCrop(32, padding=4)"
RandomHorizontalFlip == "RandomHorizontalFlip()"
UserSteps == {"RandomRotation(15)", "ColorJitter()", ToTensor, NormalizeCifar}

\* an augmentation argument: None, a string, a list of steps, or a tuple of
\* steps (a sequence that is no list)
StepSeqs == UNION { [1 .. n -> UserSteps] : n \in 0 .. MaxSteps }
Augmentations ==
    {[type |-> "NoneType", value |-> <<>>]}
        \cup { [type |-> "str", value |-> s] : s \in {"standard", "heavy", ""} }
        \cup { [type |-> "list", value |-> l] : l \in StepSeqs }
        \cup { [type |-> "tuple", value |-> l] : l \in StepSeqs }

DataIdle ==
    tcall = [fn |-> "idle", train |-> FALSE,
             augmentation |-> [type |-> "NoneType", value |-> <<>>],
             raised |-> "idle", dataset |-> "", transform |-> <<>>]

\* the arguments of a call about to be made
DataInit ==
    \E fn \in {"cifar10_data", "mnist_data"}, train \in BOOLEAN,
       augmentation \in Augmentations :
        tcall = [fn |-> fn, train |-> train, augmentation |-> augmentation,
                 raised |-> "pending", dataset |-> "", transform |-> <<>>]

\* line 149: transform_list = augmentation + transform_list
\* (variant: the user's steps appended after Normalize)
ListBranchAppended(augmentation, transform_list) ==
    transform_list \o augmentation.value
ListBranch(augmentation, transform_list) ==
    augmentation.value \o transform_list

\* lines 137-151: the transform list, and what was raised
CifarTransformList(augmentation) ==
    LET transform_list == <<ToTensor, NormalizeCifar>>
    IN  IF augmentation.type = "NoneType"
        THEN [raised |-> "none", transform_list |-> transform_list]
        ELSE IF augmentation = [type |-> "str", value |-> "standard"]
        THEN [raised |-> "none",
              transform_list |->
                  <<RandomCrop, RandomHorizontalFlip>> \o transform_list]
        ELSE IF augmentation.type = "list"
        THEN [raised |-> "none",
              transform_list |-> ListBranch(augmentation, transform_list)]
        ELSE [raised |-> "ValueError", transform_list |-> <<>>]

\* lines 163-165
MnistTransformList(augmentation) ==
    IF augmentation.type # "NoneType"
    THEN [raised |-> "AssertionError", transform_list |-> <<>>]
    ELSE [raised |-> "none", transform_list |-> <<ToTensor, NormalizeMnist>>]

\* lines 153-159: Compose(transform_list) goes to datasets.CIFAR10
cifar10_data ==
    /\ tcall.raised = "pending" /\ tcall.fn = "cifar10_data"
    /\ LET r == CifarTransformList(tcall.augmentation)
       IN  tcall' = [tcall EXCEPT
                        !.raised = r.raised,
                        !.dataset = IF r.raised = "none" THEN "CIFAR10" ELSE "",
                        !.transform = r.transform_list]

\* lines 164-170: Compose([...]) goes to datasets.MNIST
mnist_data ==
    /\ tcall.raised = "pending" /\ tcall.fn = "mnist_data"
    /\ LET r == MnistTransformList(tcall.augmentation)
       IN  tcall' = [tcall EXCEPT
                        !.raised = r.raised,
                        !.dataset = IF r.raised = "none" THEN "MNIST" ELSE "",
                        !.transform = r.transform_list]

(***************************************************************************)
(* adjust_learning_rate                                                    *)
(***************************************************************************)
VARIABLES
    \* optimizer.param_groups: a sequence of dicts (functions on their keys)
    param_groups,
    \* the last call: [op, lr, before], before being param_groups at the call
    ocall

ovars == <<param_groups, ocall>>

MaxGroups == 2
MaxRate == 2

\* rates and other hyperparameters, as small numbers
Rates == 1 .. MaxRate
GroupKeys == {{"lr", "momentum"}, {"momentum"}, {"lr"}}
Groups == UNION { [keys -> Rates] : keys \in GroupKeys }
GroupLists == UNION { [1 .. n -> Groups] : n \in 0 .. MaxGroups }

OptIdle ==
    /\ param_groups = <<>>
    /\ ocall = [op |-> "idle", lr |-> 0, before |-> <<>>]

OptInit ==
    /\ param_groups \in GroupLists
    /\ ocall = [op |-> "__init__", lr |-> 0, before |-> <<>>]

\* line 13: param_group['lr'] = lr on one dict
SetLr(param_group, lr) ==
    [k \in DOMAIN param_group \cup {"lr"} |->
        IF k = "lr" THEN lr ELSE param_group[k]]

\* lines 12-13 on the first group only
AdjustFirstGroup(groups, lr) ==
    [i \in 1 .. Len(groups) |-> IF i = 1 THEN SetLr(groups[i], lr) ELSE groups[i]]

\* lines 12-13: the loop over optimizer.param_groups
AdjustLearningRate(groups, lr) ==
    [i \in 1 .. Len(groups) |-> SetLr(groups[i], lr)]

adjust_learning_rate(lr) ==
    /\ param_groups' = AdjustLearningRate(param_groups, lr)
    /\ ocall' = [op |-> "adjust_learning_rate", lr |-> lr,
                 before |-> param_groups]

(***************************************************************************)
(* Specifications: one per component, the other components idle            *)
(***************************************************************************)
vars == <<mvars, cvars, avars, xvars, lvars, tvars, ovars>>

notMeter == <<cvars, avars, xvars, lvars, tvars, ovars>>

InitMeter ==
    /\ MeterInit /\ ConcatIdle /\ AugIdle /\ AccIdle
    /\ LsIdle /\ DataIdle /\ OptIdle

NextMeter ==
    \/ reset /\ UNCHANGED notMeter
    \/ (\E v \in Vals, n \in Weights : update(v, n)) /\ UNCHANGED notMeter

SpecMeter == InitMeter /\ [][NextMeter]_vars

notConcat == <<mvars, avars, xvars, lvars, tvars, ovars>>

InitConcat ==
    /\ MeterInit /\ ConcatInit /\ AugIdle /\ AccIdle
    /\ LsIdle /\ DataIdle /\ OptIdle

NextConcat ==
    \/ (\E idx \in IdxRange : getitem(idx)) /\ UNCHANGED notConcat
    \/ len /\ UNCHANGED notConcat

SpecConcat == InitConcat /\ [][NextConcat]_vars

notAug == <<mvars, cvars, xvars, lvars, tvars, ovars>>

InitAug ==
    /\ MeterInit /\ ConcatIdle /\ AugIdle /\ AccIdle
    /\ LsIdle /\ DataIdle /\ OptIdle

NextAug ==
    \/ (\E d \in AugDatasets, a \in AugData : construct(d, a)) /\ UNCHANGED notAug

SpecAug == InitAug /\ [][NextAug]_vars

notAcc == <<mvars, cvars, avars, lvars, tvars, ovars>>

InitAcc ==
    /\ MeterInit /\ ConcatIdle /\ AugIdle /\ AccInit
    /\ LsIdle /\ DataIdle /\ OptIdle

NextAcc ==
    \/ accuracy /\ UNCHANGED notAcc

SpecAcc == InitAcc /\ [][NextAcc]_vars

notLs == <<mvars, cvars, avars, xvars, tvars, ovars>>

InitLs ==
    /\ MeterInit /\ ConcatIdle /\ AugIdle /\ AccIdle
    /\ LsInit /\ DataIdle /\ OptIdle

NextLs ==
    \/ label_smoothing /\ UNCHANGED notLs

SpecLs == InitLs /\ [][NextLs]_vars

notData == <<mvars, cvars, avars, xvars, lvars, ovars>>

InitData ==
    /\ MeterInit /\ ConcatIdle /\ AugIdle /\ AccIdle
    /\ LsIdle /\ DataInit /\ OptIdle

NextData ==
    \/ cifar10_data /\ UNCHANGED notData
    \/ mnist_data /\ UNCHANGED notData

SpecData == InitData /\ [][NextData]_vars

notOpt == <<mvars, cvars, avars, xvars, lvars, tvars>>

InitOpt ==
    /\ MeterInit /\ ConcatIdle /\ AugIdle /\ AccIdle
    /\ LsIdle /\ DataIdle /\ OptInit

NextOpt ==
    \/ (\E lr \in Rates : adjust_learning_rate(lr)) /\ UNCHANGED notOpt

SpecOpt == InitOpt /\ [][NextOpt]_vars

(***************************************************************************)
(* Claims                                                                  *)
(***************************************************************************)
\* sum of val*n, and of n, over a history of updates
RECURSIVE WeightedTotal(_)
WeightedTotal(h) ==
    IF h = <<>> THEN 0 ELSE h[1][1] * h[1][2] + WeightedTotal(Tail(h))

RECURSIVE WeightTotal(_)
WeightTotal(h) == IF h = <<>> THEN 0 ELSE h[1][2] + WeightTotal(Tail(h))

\* every update since the last reset (or construction) had a positive n
positive == \A i \in 1 .. Len(updates) : updates[i][2] > 0

(* C1: after any sequence of reset() and update(val, n) calls with every n
   positive, avg is the weighted arithmetic mean (sum of val*n over sum of n)
   of exactly the updates since the most recent reset or construction, sum
   and count hold that numerator and denominator, and val is the last
   updated value; right after construction or reset() val, sum, count and
   avg are all 0. *)
C1_WeightedMean ==
    /\ (mcall.op \in {"__init__", "reset"} =>
            val = 0 /\ sum = 0 /\ count = 0 /\ avg = Rat(0))
    /\ (positive /\ updates # <<>> =>
            /\ sum = WeightedTotal(updates)
            /\ count = WeightTotal(updates)
            /\ count > 0
            /\ avg = Norm(WeightedTotal(updates), WeightTotal(updates))
            /\ val = updates[Len(updates)][1]
            /\ mcall.raised = "none")

\* the spec's example: (2,1), (4,1), (6,2) gives 18/4 = 4.5
C1_Witness ==
    /\ positive
    /\ updates = << <<2, 1>>, <<4, 1>>, <<6, 2>> >>
    /\ sum = 18 /\ count = 4 /\ avg = <<9, 2>> /\ val = 6

(* C6: update(val, n=0) on an accumulator whose count is 0 does not change
   avg: the division by zero raises (ZeroDivisionError) before avg is
   assigned, so avg keeps its previous value. *)
C6_ZeroWeightKeepsAvg ==
    [][(count = 0 /\ mcall'.op = "update" /\ mcall'.n = 0 /\ updates' # updates)
          => (avg' = avg /\ mcall'.raised = "ZeroDivisionError")]_vars

\* a zero-weight update on a just-reset meter has run: val is set, avg is not
C6_Witness ==
    /\ mcall.op = "update" /\ mcall.n = 0 /\ mcall.val = 4
    /\ updates = << <<4, 0>> >>
    /\ mcall.raised = "ZeroDivisionError"
    /\ val = 4 /\ count = 0 /\ avg = Rat(0)


\* the offset of the i-th dataset (1-based): the lengths before it, summed
Offset(ds, i) == ConcatLen(SubSeq(ds, 1, i - 1))

(* C2: for a ConcatDataset over m >= 1 datasets (empty ones included),
   len() is the sum of the datasets' lengths, and for every idx in
   [0, len()) __getitem__(idx) returns D_i[idx - offset_i] for the one
   dataset i whose cumulative range holds idx. *)
C2_ConcatLookup ==
    /\ (ccall.op = "__len__" =>
            ccall.len = Cardinality({ <<i, j>> \in (1 .. Len(datasets)) \X (1 .. MaxLen + 1) :
                                        j <= Len(datasets[i]) }))
    /\ (ccall.op = "__getitem__" /\ 0 <= ccall.idx /\ ccall.idx < ConcatLen(datasets) =>
            /\ ccall.raised = "none"
            /\ \E i \in 1 .. Len(datasets) :
                  /\ Offset(datasets, i) <= ccall.idx
                  /\ ccall.idx < Offset(datasets, i) + Len(datasets[i])
                  /\ ccall.item = datasets[i][ccall.idx - Offset(datasets, i) + 1])

\* an index in the third dataset, behind an empty second one
C2_Witness ==
    /\ Len(datasets) = 3 /\ Len(datasets[1]) = 2 /\ Len(datasets[2]) = 0
    /\ Len(datasets[3]) = 2
    /\ ccall.op = "__getitem__" /\ ccall.idx = 3 /\ ccall.item = Item(3, 1)

(* C3 as claimed: __getitem__(idx) raises an index error for every idx < 0
   and every idx >= len(), and returns no item. *)
C3_RaisesOutOfRange ==
    (ccall.op = "__getitem__" /\ (ccall.idx < 0 \/ ccall.idx >= ConcatLen(datasets)))
        => (ccall.raised = "IndexError" /\ ccall.item = NoItem)

(* C3 as amended: __getitem__(idx) raises IndexError for every
   idx >= len() and every idx < -len(D_0); for -len(D_0) <= idx < 0 it
   raises nothing and returns D_0[len(D_0) + idx], the first dataset's item
   counted from its end. *)
C3_OutOfRange ==
    ccall.op = "__getitem__" =>
        /\ (ccall.idx >= ConcatLen(datasets) =>
                ccall.raised = "IndexError" /\ ccall.item = NoItem)
        /\ (ccall.idx < 0 /\ datasets # <<>> /\ ccall.idx < -Len(datasets[1]) =>
                ccall.raised = "IndexError" /\ ccall.item = NoItem)
        /\ (ccall.idx < 0 /\ datasets = <<>> =>
                ccall.raised = "IndexError" /\ ccall.item = NoItem)
        /\ (ccall.idx < 0 /\ datasets # <<>> /\ ccall.idx >= -Len(datasets[1]) =>
                /\ ccall.raised = "none"
                /\ ccall.item = datasets[1][Len(datasets[1]) + ccall.idx + 1])

\* get(-1) has returned the last item of the first dataset, and get(len())
\* of the same datasets raises
C3_Witness ==
    /\ Len(datasets) = 2 /\ Len(datasets[1]) = 2 /\ Len(datasets[2]) = 1
    /\ ccall.op = "__getitem__" /\ ccall.idx = -1
    /\ ccall.raised = "none" /\ ccall.item = Item(1, 1)
    /\ ConcatGetItem(datasets, ConcatLen(datasets)).raised = "IndexError"

(* C4 as claimed: constructing an AugmentedDataset from D and A with
   len(A) = len(D) succeeds, and then len() is len(D) and __getitem__(idx)
   is D[idx] extended with A[idx] for every idx in [0, len(D)); with
   len(A) # len(D) construction raises. *)
C4_Augmented ==
    acall.op = "__init__" =>
        IF Len(acall.dataset) = Len(acall.augmented_data)
        THEN /\ acall.raised = "none"
             /\ AugLen(aself) = [raised |-> "none", len |-> Len(acall.dataset)]
             /\ \A idx \in 0 .. Len(acall.dataset) - 1 :
                    AugGetItem(aself, idx) =
                        [raised |-> "none",
                         item |-> acall.dataset[idx + 1] \o <<acall.augmented_data[idx + 1]>>]
        ELSE acall.raised # "none"

\* how many classes score strictly higher than the label, and how many other
\* classes score at least as high
Greater(row, label) ==
    Cardinality({ c \in 1 .. Len(row) : row[c] > row[label + 1] })
NotLess(row, label) ==
    Cardinality({ c \in 1 .. Len(row) : c # label + 1 /\ row[c] >= row[label + 1] })

\* examples whose label is among the K highest-scoring classes whatever the
\* order among equal scores, and examples where it is for some such order
SurelyTop(K) ==
    Cardinality({ i \in 1 .. Len(xcall.target) :
                    NotLess(xcall.output[i], xcall.target[i]) < K })
PossiblyTop(K) ==
    Cardinality({ i \in 1 .. Len(xcall.target) :
                    Greater(xcall.output[i], xcall.target[i]) < K })

AccValid ==
    /\ xcall.raised # "pending"
    /\ Len(xcall.target) >= 1
    /\ \A t \in 1 .. Len(xcall.topk) : xcall.topk[t] <= xcall.classes

(* C5: accuracy returns one value per requested K, in topk's order, each
   100 * (examples whose label is among the K highest-scoring classes) / N,
   so within [0, 100]; it is 100 for K = C, and 100 for K = 1 when every
   label is the unique highest-scoring class.  Where scores tie at the K-th
   place the count is that of some order among the equal scores. *)
C5_Accuracy ==
    AccValid =>
        /\ xcall.raised = "none"
        /\ Len(xcall.res) = Len(xcall.topk)
        /\ \A t \in 1 .. Len(xcall.topk) :
              LET K == xcall.topk[t]
                  N == Len(xcall.target)
              IN  /\ \E cnt \in SurelyTop(K) .. PossiblyTop(K) :
                        xcall.res[t] = Norm(100 * cnt, N)
                  /\ RLeq(Rat(0), xcall.res[t]) /\ RLeq(xcall.res[t], Rat(100))
                  /\ (K = xcall.classes => xcall.res[t] = Rat(100))
                  /\ (K = 1 /\ SurelyTop(1) = N => xcall.res[t] = Rat(100))

\* the spec's example: scores [[0.1, 0.9], [0.8, 0.2]] (as ranks), labels
\* [1, 1], K = [1] gives 50; here with K = [2, 1] for the order of the results
C5_Witness ==
    /\ xcall.output = << <<1, 3>>, <<3, 1>> >>
    /\ xcall.target = <<1, 1>>
    /\ xcall.topk = <<2, 1>>
    /\ xcall.raised = "none"
    /\ xcall.res = << Rat(100), Rat(50) >>

(* C9: accuracy raises, and returns no percentages, when some requested K
   exceeds the number of classes C or when the batch is empty (N = 0). *)
C9_AccuracyRaises ==
    (/\ xcall.raised # "pending"
     /\ \/ \E t \in 1 .. Len(xcall.topk) : xcall.topk[t] > xcall.classes
        \/ Len(xcall.target) = 0)
        => (xcall.raised \in {"RuntimeError", "ZeroDivisionError"} /\ xcall.res = <<>>)

\* a call with K = (1, 4) on three classes has raised
C9_Witness ==
    /\ xcall.classes = 3 /\ Len(xcall.target) = 2
    /\ xcall.topk = <<1, 4>>
    /\ xcall.raised = "RuntimeError" /\ xcall.res = <<>>

\* a call on an empty batch has raised
C9_EmptyBatch ==
    /\ xcall.classes = 3 /\ Len(xcall.target) = 0
    /\ xcall.topk = <<1, 3>>
    /\ xcall.raised = "ZeroDivisionError" /\ xcall.res = <<>>

\* the number of classes a label_smoothing call is about: the given
\* num_classes of a hard target, the row length of a soft one
LsClasses ==
    IF lcall.kind = "hard" THEN lcall.num_classes ELSE Len(lcall.target[1])

\* the distribution the call's target stands for, before smoothing
LsTarget ==
    IF lcall.kind = "hard"
    THEN [i \in 1 .. Len(lcall.target) |->
            [c \in 1 .. LsClasses |->
                IF c = lcall.target[i] + 1 THEN Rat(1) ELSE Rat(0)]]
    ELSE lcall.target

(* C7: for C >= 2 classes, epsilon in [0, 1) and a target that is a hard
   label in [0, C) (with num_classes = C) or a distribution of length C
   summing to 1, label_smoothing returns per example a length-C distribution
   that sums to 1, each slot being
   target * (1 - epsilon - epsilon/(C-1)) + epsilon/(C-1); with epsilon = 0
   the output is the one-hot / soft target itself. *)
C7_LabelSmoothing ==
    (lcall.raised \notin {"idle", "pending"} /\ LsClasses >= 2) =>
        /\ lcall.raised = "none"
        /\ Len(lcall.out) = Len(lcall.target)
        /\ \A i \in 1 .. Len(lcall.out) :
              /\ Len(lcall.out[i]) = LsClasses
              /\ RSum(lcall.out[i]) = Rat(1)
              /\ \A c \in 1 .. LsClasses :
                    LET C == LsClasses
                        e == lcall.epsilon
                        t == LsTarget[i][c]
                    IN  \* (t*(1 - e - e/(C-1)) + e/(C-1)), over the
                        \* common denominator t2 * e2 * (C-1)
                        /\ lcall.out[i][c] =
                              Norm(t[1] * ((C - 1) * e[2] - C * e[1]) + e[1] * t[2],
                                   t[2] * e[2] * (C - 1))
                        /\ RLeq(Rat(0), lcall.out[i][c])
        /\ (lcall.epsilon = Rat(0) => lcall.out = LsTarget)

\* label 1 of 3 classes with epsilon = 1/4: (1/8, 3/4, 1/8)
C7_Witness ==
    /\ lcall.kind = "hard" /\ lcall.target = <<1>> /\ lcall.num_classes = 3
    /\ lcall.epsilon = <<1, 4>>
    /\ lcall.raised = "none"
    /\ lcall.out = << << <<1, 8>>, <<3, 4>>, <<1, 8>> >> >>

\* the last two steps of a transform list
LastTwo(l) == SubSeq(l, Len(l) - 1, Len(l))

(* C8: for every augmentation cifar10_data accepts (None, "standard", a
   list of steps) the pipeline ends with ToTensor then the fixed Normalize
   step; with "standard" it begins with RandomCrop(32, padding=4) then
   RandomHorizontalFlip; with a list the user's steps come first, in their
   order; any other augmentation raises; mnist_data raises for every
   augmentation that is not None. *)
C8_Pipeline ==
    LET a == tcall.augmentation
        l == tcall.transform
    IN  /\ (tcall.fn = "cifar10_data" /\ tcall.raised # "pending" =>
              IF a.type \in {"NoneType", "list"} \/ a = [type |-> "str", value |-> "standard"]
              THEN /\ tcall.raised = "none" /\ tcall.dataset = "CIFAR10"
                   /\ Len(l) >= 2
                   /\ LastTwo(l) = <<ToTensor, NormalizeCifar>>
                   /\ (a.type = "NoneType" => Len(l) = 2)
                   /\ (a.type = "str" =>
                          Len(l) = 4 /\ l[1] = RandomCrop /\ l[2] = RandomHorizontalFlip)
                   /\ (a.type = "list" =>
                          /\ Len(l) = Len(a.value) + 2
                          /\ SubSeq(l, 1, Len(a.value)) = a.value)
              ELSE tcall.raised = "ValueError" /\ l = <<>> /\ tcall.dataset = "")
        /\ (tcall.fn = "mnist_data" /\ tcall.raised # "pending" /\ a.type # "NoneType" =>
              tcall.raised = "AssertionError" /\ l = <<>> /\ tcall.dataset = "")

\* cifar10_data has run on a list of two user steps, one of them a Normalize
C8_Witness ==
    /\ tcall.fn = "cifar10_data" /\ tcall.raised = "none"
    /\ tcall.augmentation = [type |-> "list",
                             value |-> <<NormalizeCifar, "ColorJitter()">>]
    /\ tcall.transform = <<NormalizeCifar, "ColorJitter()", ToTensor, NormalizeCifar>>

(* C10: adjust_learning_rate(optimizer, lr) sets the 'lr' entry of every
   parameter group to lr (zero groups, or several with different previous
   rates, included), keeps the number and order of the groups and every
   other key of every group, and a second call with the same lr changes
   nothing. *)
C10_AdjustLearningRate ==
    ocall.op = "adjust_learning_rate" =>
        /\ Len(param_groups) = Len(ocall.before)
        /\ \A i \in 1 .. Len(param_groups) :
              /\ DOMAIN param_groups[i] = DOMAIN ocall.before[i] \cup {"lr"}
              /\ param_groups[i]["lr"] = ocall.lr
              /\ \A k \in DOMAIN ocall.before[i] \ {"lr"} :
                    param_groups[i][k] = ocall.before[i][k]
        /\ AdjustLearningRate(param_groups, ocall.lr) = param_groups

\* two groups with different rates and momenta have both been set to rate 2
C10_Witness ==
    /\ ocall.op = "adjust_learning_rate" /\ ocall.lr = 2
    /\ ocall.before = << [lr |-> 1, momentum |-> 1], [lr |-> 2, momentum |-> 2] >>
    /\ param_groups = << [lr |-> 2, momentum |-> 1], [lr |-> 2, momentum |-> 2] >>

=============================================================================
